---- MODULE Spec2Model ----
(***************************************************************************)
(* Model of FHIRSchedulerAgent.rank_appointment_options, of the fetch that *)
(* feeds it (search_schedules) and of the booking history kept in the      *)
(* Streamlit session state (src/app.py).                                   *)
(*                                                                         *)
(* A Python dict is a function whose DOMAIN is the set of keys present; a  *)
(* Python str is a sequence of one-character strings, so that lower() and  *)
(* the substring test `in` are computed, not assumed.  An ISO timestamp    *)
(* string is the sequence of its fields <<day, hour>>; any other sequence  *)
(* is text that parse_date rejects.  Days are day numbers on one calendar. *)
(***************************************************************************)
EXTENDS Integers, Sequences, FiniteSets, TLC

VARIABLES
    schedules,         \* the list handed to rank_appointment_options
    user_preferences,  \* the sidebar's preference dict
    today,             \* what date.today() returns now
    ranked_options,    \* the list the latest ranking pass returned
    phase,             \* "input", "ranked" or "raised"
    pass_date,         \* the date.today() the latest ranking pass read
    passes,            \* how many ranking passes have returned
    session_state,     \* st.session_state, a dict
    heap,              \* the list objects, by address; session_state holds addresses
    calls,             \* log of the booking submissions handled so far
    pc,                \* per booking handler: the statement it is at
    ref,               \* per booking handler: the list address it loaded
    entry,             \* per booking handler: the booking dict it appends
    fetch_response     \* what the server answered to the latest GET /Schedule

rankVars == <<schedules, user_preferences, today, ranked_options, phase, pass_date, passes>>

sessionVars == <<session_state, heap, calls>>

handlerVars == <<pc, ref, entry>>

fetchVars == <<fetch_response>>

vars == <<schedules, user_preferences, today, ranked_options, phase, pass_date, passes,
          session_state, heap, calls, pc, ref, entry, fetch_response>>

----------------------------------------------------------------------------
(* Bounds of the model *)

MaxSchedules == 3
MaxToday == 1
MaxPasses == 2
MaxBookings == 3
MaxFetched == 6
MaxEntries == 3

----------------------------------------------------------------------------
(* Python primitives *)

\* dict.get(key, default)
Get(d, k, default) == IF k \in DOMAIN d THEN d[k] ELSE default

\* {}
EmptyDict == [k \in {} |-> 0]

\* d[k] = v on a dict
Put(d, k, v) == [x \in (DOMAIN d) \cup {k} |-> IF x = k THEN v ELSE d[x]]

\* str.lower() on one character
LowerChar(c) ==
    CASE c = "F" -> "f"
      [] c = "P" -> "p"
      [] c = "U" -> "u"
      [] c = "C" -> "c"
      [] OTHER -> c

\* str.lower()
Lower(s) == [i \in 1..Len(s) |-> LowerChar(s[i])]

\* needle in haystack (str containment)
Contains(haystack, needle) ==
    \E i \in 0..(Len(haystack) - Len(needle)) :
        SubSeq(haystack, i + 1, i + Len(needle)) = needle

\* the literal 'Unknown'
Unknown == <<"U", "n", "k", "n", "o", "w", "n">>

\* the literal 'Unknown Schedule'
UnknownSchedule == Unknown \o <<" ", "S", "c", "h", "e", "d", "u", "l", "e">>

\* parse_date: a datetime, or an exception (ok = FALSE)
ParseDate(s) ==
    IF Len(s) = 2 /\ s[2] \in 0..23
    THEN [ok |-> TRUE, day |-> s[1], hour |-> s[2]]
    ELSE [ok |-> FALSE, day |-> 0, hour |-> 0]

----------------------------------------------------------------------------
(* Data extraction (lines 266-306) *)

\* st.get('concept', {}).get('coding', [{}]) of one serviceType entry
ServiceCoding(st) == Get(Get(st, "concept", EmptyDict), "coding", <<EmptyDict>>)

\* spec.get('coding', [{}]) of one specialty entry
SpecialtyCoding(sp) == Get(sp, "coding", <<EmptyDict>>)

\* coding[0] raises IndexError on an empty coding list; nothing catches it
ExtractionRaises(schedule) ==
    \/ \E i \in 1..Len(Get(schedule, "serviceType", <<>>)) :
          Len(ServiceCoding(schedule.serviceType[i])) = 0
    \/ \E i \in 1..Len(Get(schedule, "specialty", <<>>)) :
          Len(SpecialtyCoding(schedule.specialty[i])) = 0

ExtractActors(schedule) ==
    IF "actor" \in DOMAIN schedule
    THEN [i \in 1..Len(schedule.actor) |-> Get(schedule.actor[i], "display", Unknown)]
    ELSE <<>>

\* variant: an entry without a display is skipped
ExtractServiceTypesSkipping(schedule) ==
    IF "serviceType" \in DOMAIN schedule
    THEN LET HasDisplay(st) == "display" \in DOMAIN ServiceCoding(st)[1]
             kept == SelectSeq(schedule.serviceType, HasDisplay)
         IN  [i \in 1..Len(kept) |-> ServiceCoding(kept[i])[1].display]
    ELSE <<>>

ExtractServiceTypes(schedule) ==
    IF "serviceType" \in DOMAIN schedule
    THEN [i \in 1..Len(schedule.serviceType) |->
            Get(ServiceCoding(schedule.serviceType[i])[1], "display", Unknown)]
    ELSE <<>>

ExtractSpecialties(schedule) ==
    IF "specialty" \in DOMAIN schedule
    THEN [i \in 1..Len(schedule.specialty) |->
            Get(SpecialtyCoding(schedule.specialty[i])[1], "display", Unknown)]
    ELSE <<>>

ExtractPlanningHorizon(schedule) ==
    IF "planningHorizon" \in DOMAIN schedule
    THEN schedule.planningHorizon
    ELSE EmptyDict

\* variant: the name defaults to 'Unknown' like the id
DetailsNameUnknown(schedule) ==
    [schedule_id      |-> Get(schedule, "id", Unknown),
     name             |-> Get(schedule, "name", Unknown),
     comment          |-> Get(schedule, "comment", <<>>),
     actors           |-> ExtractActors(schedule),
     service_types    |-> ExtractServiceTypes(schedule),
     specialties      |-> ExtractSpecialties(schedule),
     planning_horizon |-> ExtractPlanningHorizon(schedule),
     score            |-> 0,
     score_details    |-> EmptyDict]

\* the details dict of one schedule before scoring
Details(schedule) ==
    [schedule_id      |-> Get(schedule, "id", Unknown),
     name             |-> Get(schedule, "name", UnknownSchedule),
     comment          |-> Get(schedule, "comment", <<>>),
     actors           |-> ExtractActors(schedule),
     service_types    |-> ExtractServiceTypes(schedule),
     specialties      |-> ExtractSpecialties(schedule),
     planning_horizon |-> ExtractPlanningHorizon(schedule),
     score            |-> 0,
     score_details    |-> EmptyDict]

----------------------------------------------------------------------------
(* Scoring (lines 312-387).  acc is the pair of the running `score` and    *)
(* the `score_details` dict.                                               *)

\* variant: the points are added but the breakdown entry is not written
AwardScoreOnly(acc, label, pts) ==
    [score |-> acc.score + pts, score_details |-> acc.score_details]

\* score += pts ; score_details[label] = pts
Award(acc, label, pts) ==
    [score |-> acc.score + pts, score_details |-> Put(acc.score_details, label, pts)]

\* some element of the list contains the preference, compared in lower case
AnyMatch(preferred, strings) ==
    \E i \in 1..Len(strings) : Contains(Lower(strings[i]), preferred)

\* variant: no `break`, the points are added once per matching string
ServiceCriterionNoBreak(acc, details, prefs) ==
    LET preferred_service == Lower(Get(prefs, "service_type", <<>>))
        matches == {i \in 1..Len(details.service_types) :
                        Contains(Lower(details.service_types[i]), preferred_service)}
    IN  IF preferred_service # <<>> /\ matches # {}
        THEN [score |-> acc.score + 30 * Cardinality(matches),
              score_details |-> Put(acc.score_details, "Service Match", 30)]
        ELSE acc

\* variant: no `if preferred_service` guard
ServiceCriterionNoGuard(acc, details, prefs) ==
    LET preferred_service == Lower(Get(prefs, "service_type", <<>>))
    IN  IF AnyMatch(preferred_service, details.service_types)
        THEN Award(acc, "Service Match", 30)
        ELSE acc

\* variant: the service-type string is not lowered before the test
ServiceCriterionCaseSensitive(acc, details, prefs) ==
    LET preferred_service == Lower(Get(prefs, "service_type", <<>>))
    IN  IF /\ preferred_service # <<>>
           /\ \E i \in 1..Len(details.service_types) :
                 Contains(details.service_types[i], preferred_service)
        THEN Award(acc, "Service Match", 30)
        ELSE acc

\* CRITERIA 1
ServiceCriterion(acc, details, prefs) ==
    LET preferred_service == Lower(Get(prefs, "service_type", <<>>))
    IN  IF preferred_service # <<>> /\ AnyMatch(preferred_service, details.service_types)
        THEN Award(acc, "Service Match", 30)
        ELSE acc

\* variant: specialty is only looked at when the service did not match
SpecialtyCriterionElif(acc, details, prefs) ==
    LET preferred_specialty == Lower(Get(prefs, "specialty", <<>>))
    IN  IF /\ "Service Match" \notin DOMAIN acc.score_details
           /\ preferred_specialty # <<>>
           /\ AnyMatch(preferred_specialty, details.specialties)
        THEN Award(acc, "Specialty Match", 25)
        ELSE acc

\* CRITERIA 2
SpecialtyCriterion(acc, details, prefs) ==
    LET preferred_specialty == Lower(Get(prefs, "specialty", <<>>))
    IN  IF preferred_specialty # <<>> /\ AnyMatch(preferred_specialty, details.specialties)
        THEN Award(acc, "Specialty Match", 25)
        ELSE acc

\* `'planning_horizon' in details and details['planning_horizon']`
HasHorizon(details) == DOMAIN details.planning_horizon # {}

\* parse_date(details['planning_horizon'].get('start', ''))
StartTime(details) == ParseDate(Get(details.planning_horizon, "start", <<>>))

\* variant: noon still counts as morning
TimeMatchesNoonIsMorning(preferred_time, hour) ==
    \/ preferred_time = "morning" /\ hour <= 12
    \/ preferred_time = "afternoon" /\ 12 <= hour /\ hour < 17
    \/ preferred_time = "evening" /\ hour >= 17

\* the three-way time-of-day test
TimeMatches(preferred_time, hour) ==
    \/ preferred_time = "morning" /\ hour < 12
    \/ preferred_time = "afternoon" /\ 12 <= hour /\ hour < 17
    \/ preferred_time = "evening" /\ hour >= 17

\* CRITERIA 3
TimeCriterion(acc, details, prefs) ==
    IF HasHorizon(details) /\ StartTime(details).ok
       /\ TimeMatches(Get(prefs, "preferred_time", "morning"), StartTime(details).hour)
    THEN Award(acc, "Time Preference", 15)
    ELSE acc

\* variant: `<` where the code has `<=`
AvailabilityPointsStrict(days_from_now) ==
    IF days_from_now < 7 THEN 20
    ELSE IF days_from_now < 14 THEN 15
    ELSE IF days_from_now < 30 THEN 10
    ELSE 0

\* the if/elif chain on days_from_now
AvailabilityPoints(days_from_now) ==
    IF days_from_now <= 7 THEN 20
    ELSE IF days_from_now <= 14 THEN 15
    ELSE IF days_from_now <= 30 THEN 10
    ELSE 0

\* variant: a start that does not parse is taken to be today
AvailabilityCriterionDefaultsToToday(acc, details, tday) ==
    IF HasHorizon(details)
    THEN IF StartTime(details).ok
         THEN IF AvailabilityPoints(StartTime(details).day - tday) > 0
              THEN Award(acc, "Availability", AvailabilityPoints(StartTime(details).day - tday))
              ELSE acc
         ELSE Award(acc, "Availability", AvailabilityPoints(0))
    ELSE acc

\* CRITERIA 4
AvailabilityCriterion(acc, details, tday) ==
    IF HasHorizon(details) /\ StartTime(details).ok
       /\ AvailabilityPoints(StartTime(details).day - tday) > 0
    THEN Award(acc, "Availability", AvailabilityPoints(StartTime(details).day - tday))
    ELSE acc

\* variant: a record without the active field counts as active
ActiveCriterionDefaultTrue(acc, schedule) ==
    IF Get(schedule, "active", TRUE)
    THEN Award(acc, "Active Schedule", 10)
    ELSE acc

\* CRITERIA 5
ActiveCriterion(acc, schedule) ==
    IF Get(schedule, "active", FALSE)
    THEN Award(acc, "Active Schedule", 10)
    ELSE acc

\* one iteration of the loop body: the details dict with score and breakdown
ScoreSchedule(schedule, prefs, tday) ==
    LET details == Details(schedule)
        a0 == [score |-> 0, score_details |-> EmptyDict]
        a1 == ServiceCriterion(a0, details, prefs)
        a2 == SpecialtyCriterion(a1, details, prefs)
        a3 == TimeCriterion(a2, details, prefs)
        a4 == AvailabilityCriterion(a3, details, tday)
        a5 == ActiveCriterion(a4, schedule)
    IN  [details EXCEPT !.score = a5.score, !.score_details = a5.score_details]

\* ranked_options before the sort
ScoreAll(scheds, prefs, tday) ==
    [i \in 1..Len(scheds) |-> ScoreSchedule(scheds[i], prefs, tday)]

----------------------------------------------------------------------------
(* Final ranking (line 394): list.sort(key=score, reverse=True), which is  *)
(* stable: equal keys keep their original order.                           *)

\* variant: ascending order (reverse=True left out)
RECURSIVE InsertAscending(_, _)
InsertAscending(sorted, x) ==
    IF sorted = <<>> THEN <<x>>
    ELSE IF Head(sorted).score <= x.score
         THEN <<Head(sorted)>> \o InsertAscending(Tail(sorted), x)
         ELSE <<x>> \o sorted

\* variant: x goes in front of the elements that tie with it
RECURSIVE InsertBeforeTies(_, _)
InsertBeforeTies(sorted, x) ==
    IF sorted = <<>> THEN <<x>>
    ELSE IF Head(sorted).score > x.score
         THEN <<Head(sorted)>> \o InsertBeforeTies(Tail(sorted), x)
         ELSE <<x>> \o sorted

\* insert x behind every element whose score is >= x's
RECURSIVE InsertByScore(_, _)
InsertByScore(sorted, x) ==
    IF sorted = <<>> THEN <<x>>
    ELSE IF Head(sorted).score >= x.score
         THEN <<Head(sorted)>> \o InsertByScore(Tail(sorted), x)
         ELSE <<x>> \o sorted

RECURSIVE SortFrom(_, _)
SortFrom(sorted, rest) ==
    IF rest = <<>> THEN sorted
    ELSE SortFrom(InsertByScore(sorted, Head(rest)), Tail(rest))

\* variant: sort ascending, then reverse the list (ties come out reversed)
RECURSIVE SortAscendingFrom(_, _)
SortAscendingFrom(sorted, rest) ==
    IF rest = <<>> THEN sorted
    ELSE SortAscendingFrom(InsertAscending(sorted, Head(rest)), Tail(rest))

SortAscendingReversed(options) ==
    LET asc == SortAscendingFrom(<<>>, options)
    IN  [i \in 1..Len(asc) |-> asc[Len(asc) + 1 - i]]

SortByScore(options) == SortFrom(<<>>, options)

\* variant: the ranking itself cuts its result to max_results
RankResultTruncating(scheds, prefs, tday) ==
    LET ranked == SortByScore(ScoreAll(scheds, prefs, tday))
    IN  SubSeq(ranked, 1, IF prefs.max_results < Len(ranked)
                          THEN prefs.max_results ELSE Len(ranked))

\* the value rank_appointment_options returns
RankResult(scheds, prefs, tday) == SortByScore(ScoreAll(scheds, prefs, tday))

----------------------------------------------------------------------------
(* Inputs: Schedule resources as the server returns them (shape as in      *)
(* create_sample_schedule) and the sidebar's preference dict.              *)

\* an optional field: absent ({}) or present with one value of S
Opt(S) == {{}} \cup {{v} : v \in S}

\* a Schedule resource holding exactly the fields that are present
Schedule(idO, nameO, actorO, serviceTypeO, specialtyO, planningHorizonO, activeO) ==
    LET fields == [id |-> idO, name |-> nameO, actor |-> actorO,
                   serviceType |-> serviceTypeO, specialty |-> specialtyO,
                   planningHorizon |-> planningHorizonO, active |-> activeO]
    IN  [k \in {x \in DOMAIN fields : fields[x] # {}} |-> CHOOSE v \in fields[k] : TRUE]

\* serviceType entry with a display, as create_sample_schedule writes it
ServiceEntry(display) == [concept |-> [coding |-> <<[code |-> <<"1">>, display |-> display]>>]]

\* serviceType entry without the nested concept
ServiceEntryNoConcept == [text |-> <<"p">>]

\* serviceType entry whose coding list is present but empty
ServiceEntryEmptyCoding == [concept |-> [coding |-> <<>>]]

\* specialty entry with a display
SpecialtyEntry(display) == [coding |-> <<[code |-> <<"1">>, display |-> display]>>]

ServiceTypeLists ==
    { <<>>,
      <<ServiceEntry(<<"F", "p">>)>>,
      <<ServiceEntry(<<"C">>), ServiceEntry(<<"p", "c">>)>>,
      <<ServiceEntry(<<"F", "p">>), ServiceEntry(<<"p", "c">>)>>,
      <<ServiceEntryNoConcept>>,
      <<ServiceEntryEmptyCoding>> }

SpecialtyLists ==
    { <<SpecialtyEntry(<<"c", "F">>)>>,
      <<SpecialtyEntry(<<"p">>)>>,
      <<SpecialtyEntry(<<"C">>), SpecialtyEntry(<<"c">>)>> }

\* start days: both sides of every threshold of the availability chain, for
\* each value of today
StartDays == {-1, 0, 1, 7, 8, 9, 14, 15, 16, 30, 31, 32}

\* start hours: both sides of every threshold of the time-of-day test
StartHours == {0, 11, 12, 16, 17, 23}

\* planningHorizon values: parseable starts, text that does not parse, a
\* horizon without start, and the empty dict
PlanningHorizons ==
    {[start |-> <<d, 9>>, end |-> <<d, 17>>] : d \in StartDays}
    \cup {[start |-> <<1, h>>, end |-> <<1, 23>>] : h \in StartHours}
    \cup {[start |-> <<1, 24>>, end |-> <<1, 9>>], [start |-> <<>>], [end |-> <<1, 9>>], EmptyDict}

\* records that differ in every field the scoring reads
RichSchedules ==
    { Schedule({<<"1">>}, {}, {}, st, sp, ph, ac) :
        st \in Opt(ServiceTypeLists), sp \in Opt(SpecialtyLists),
        ph \in Opt(PlanningHorizons), ac \in Opt(BOOLEAN) }

\* a few records with equal and with different scores, told apart by id
RankSchedules ==
    { Schedule(id, {<<"n">>}, {<<[display |-> <<"D">>]>>}, st, {}, {}, ac) :
        id \in {{<<"1">>}, {<<"2">>}},
        st \in {{}, {<<ServiceEntry(<<"F", "p">>)>>}},
        ac \in {{}, {TRUE}} }

\* the record {} with no fields
EmptySchedule == Schedule({}, {}, {}, {}, {}, {}, {})

\* all lists over S of length 0..n
RECURSIVE ListsUpTo(_, _)
ListsUpTo(S, n) ==
    IF n = 0 THEN {<<>>}
    ELSE LET shorter == ListsUpTo(S, n - 1)
         IN  shorter \cup {Append(l, x) : l \in {m \in shorter : Len(m) = n - 1}, x \in S}

\* the lists of schedules handed to rank_appointment_options
ScheduleLists ==
    ListsUpTo(RichSchedules \cup {EmptySchedule}, 1) \cup ListsUpTo(RankSchedules, MaxSchedules)

\* the sidebar's options
ServiceTypeOptions == {<<>>, <<"P">>, <<"F", "p">>}
SpecialtyOptions == {<<>>, <<"C">>}
TimeOptions == {"morning", "afternoon", "evening"}

PreferenceSets ==
    [service_type : ServiceTypeOptions, specialty : SpecialtyOptions,
     preferred_time : TimeOptions, max_results : {5}]

----------------------------------------------------------------------------
(* State machine *)

\* no GET /Schedule has been answered yet
NoResponse == EmptyDict

\* the booking handlers that may run against one session
Handlers == {1, 2}

\* a fresh session: nothing booked, no handler running
InitSession ==
    /\ session_state = EmptyDict
    /\ heap = <<>>
    /\ calls = <<>>
    /\ pc = [h \in Handlers |-> "idle"]
    /\ ref = [h \in Handlers |-> 0]
    /\ entry = [h \in Handlers |-> EmptyDict]
    /\ fetch_response = NoResponse

Init ==
    /\ schedules \in ScheduleLists
    /\ user_preferences \in PreferenceSets
    /\ today \in 0..MaxToday
    /\ ranked_options = <<>>
    /\ phase = "input"
    /\ pass_date = today
    /\ passes = 0
    /\ InitSession

\* variant: the score is written into the supplied record, not into a fresh dict
RankAppointmentOptionsWritingInputs ==
    /\ phase = "input"
    /\ \A i \in 1..Len(schedules) : ~ExtractionRaises(schedules[i])
    /\ ranked_options' = RankResult(schedules, user_preferences, today)
    /\ schedules' = [i \in 1..Len(schedules) |->
                        Put(schedules[i], "score",
                            ScoreSchedule(schedules[i], user_preferences, today).score)]
    /\ phase' = "ranked"
    /\ pass_date' = today
    /\ passes' = 1
    /\ UNCHANGED <<user_preferences, today, sessionVars, handlerVars, fetchVars>>

\* rank_appointment_options returns the ranked list
RankAppointmentOptions ==
    /\ phase = "input"
    /\ \A i \in 1..Len(schedules) : ~ExtractionRaises(schedules[i])
    /\ ranked_options' = RankResult(schedules, user_preferences, today)
    /\ phase' = "ranked"
    /\ pass_date' = today
    /\ passes' = 1
    /\ UNCHANGED <<schedules, user_preferences, today, sessionVars, handlerVars, fetchVars>>

\* rank_appointment_options raises out of the extraction; nothing is returned
RankAppointmentOptionsRaises ==
    /\ phase = "input"
    /\ \E i \in 1..Len(schedules) : ExtractionRaises(schedules[i])
    /\ phase' = "raised"
    /\ UNCHANGED <<schedules, user_preferences, today, ranked_options, pass_date, passes,
                   sessionVars, handlerVars, fetchVars>>

Next == RankAppointmentOptions \/ RankAppointmentOptionsRaises

Spec == Init /\ [][Next]_vars

----------------------------------------------------------------------------
(* Repeated passes: the same records and preferences are ranked again,     *)
(* possibly after the calendar date has changed.                           *)

\* variant: the result list is not started afresh, a pass adds to the previous results
RankAppointmentOptionsAgainKeepingResults ==
    /\ phase = "ranked"
    /\ passes < MaxPasses
    /\ ranked_options' =
          SortByScore(ranked_options \o ScoreAll(schedules, user_preferences, today))
    /\ pass_date' = today
    /\ passes' = passes + 1
    /\ UNCHANGED <<schedules, user_preferences, today, phase, sessionVars, handlerVars, fetchVars>>

\* rank_appointment_options is called again on the same arguments and returns
RankAppointmentOptionsAgain ==
    /\ phase = "ranked"
    /\ passes < MaxPasses
    /\ ranked_options' = RankResult(schedules, user_preferences, today)
    /\ pass_date' = today
    /\ passes' = passes + 1
    /\ UNCHANGED <<schedules, user_preferences, today, phase, sessionVars, handlerVars, fetchVars>>

\* midnight: date.today() moves on by one day
MidnightPasses ==
    /\ today < MaxToday
    /\ today' = today + 1
    /\ UNCHANGED <<schedules, user_preferences, ranked_options, phase, pass_date, passes,
                   sessionVars, handlerVars, fetchVars>>

\* one record at a time, starting on day 0
InitRepeat ==
    /\ Init
    /\ Len(schedules) <= 1
    /\ today = 0

NextRepeat ==
    \/ RankAppointmentOptions
    \/ RankAppointmentOptionsRaises
    \/ RankAppointmentOptionsAgain
    \/ MidnightPasses

SpecRepeat == InitRepeat /\ [][NextRepeat]_vars

----------------------------------------------------------------------------
(* Booking (lines 398-529 and 817-872) and the session's booking history   *)
(* (lines 859-868, 896-908).  An Optional[str] is <<>> for None and <<s>>  *)
(* for the string s.                                                       *)

\* ', '.join(strings)
RECURSIVE Join(_)
Join(strings) ==
    IF strings = <<>> THEN <<>>
    ELSE IF Len(strings) = 1 THEN strings[1]
    ELSE strings[1] \o <<",", " ">> \o Join(Tail(strings))

\* what the POST to /Appointment can come to: an exception, or a response with a
\* status code and a JSON body
Responses ==
    { [raised |-> TRUE, status_code |-> 0, json |-> EmptyDict],
      [raised |-> FALSE, status_code |-> 500, json |-> [id |-> <<"9">>]],
      [raised |-> FALSE, status_code |-> 201, json |-> [id |-> <<"7">>]],
      [raised |-> FALSE, status_code |-> 200, json |-> [id |-> <<"8">>]],
      [raised |-> FALSE, status_code |-> 201, json |-> [resourceType |-> <<"A">>]] }

\* create_appointment_booking: the new appointment's id, or None
CreateAppointmentBooking(response) ==
    IF response.raised THEN <<>>
    ELSE IF response.status_code \in {200, 201}
         THEN IF "id" \in DOMAIN response.json THEN <<response.json.id>> ELSE <<>>
         ELSE <<>>

\* `if appointment_id:`
Truthy(optional) == optional # <<>> /\ optional[1] # <<>>

\* the dict appended to the history (lines 862-868)
BookingRecord(appointment_id, patient_name, option, now) ==
    [appointment_id |-> appointment_id,
     patient_name   |-> patient_name,
     provider       |-> Join(option.actors),
     schedule_id    |-> option.schedule_id,
     booking_time   |-> now]

\* `'booked_appointments' not in st.session_state`
HistoryAbsent(state) == "booked_appointments" \notin DOMAIN state

\* st.session_state.booked_appointments = [] : a new list object
NewList(hp) == Append(hp, <<>>)

\* variant: the list is started afresh on every booking
RecordBookingResetting(state, hp, booking) ==
    LET hp1 == NewList(hp)
        state1 == Put(state, "booked_appointments", Len(hp1))
    IN  [session_state |-> state1,
         heap |-> [hp1 EXCEPT ![state1.booked_appointments] = Append(@, booking)]]

\* lines 860-868: start the history if there is none, then append
RecordBooking(state, hp, booking) ==
    LET hp1 == IF HistoryAbsent(state) THEN NewList(hp) ELSE hp
        state1 == IF HistoryAbsent(state)
                  THEN Put(state, "booked_appointments", Len(hp1))
                  ELSE state
    IN  [session_state |-> state1,
         heap |-> [hp1 EXCEPT ![state1.booked_appointments] = Append(@, booking)]]

\* the history as the page lists it (lines 897-908), oldest first
BookingHistory ==
    IF HistoryAbsent(session_state) THEN <<>> ELSE heap[session_state.booked_appointments]

\* the patient names typed into the booking form; the first is the default
PatientNames == {<<"D">>, <<"J">>}

\* the slice list[:n]
Take(list, n) == SubSeq(list, 1, IF n < Len(list) THEN n ELSE Len(list))

\* top_options = ranked_options[:max_results]
TopOptions == Take(ranked_options, user_preferences.max_results)

\* the handler of 'Book This Appointment' for one displayed option, run to its end
BookThisAppointment ==
    /\ phase = "ranked"
    /\ Len(calls) < MaxBookings
    /\ \A h \in Handlers : pc[h] = "idle"
    /\ \E i \in 1..Len(TopOptions), patient_name \in PatientNames, response \in Responses :
          LET option == TopOptions[i]
              appointment_id == CreateAppointmentBooking(response)
              booking == BookingRecord(appointment_id[1], patient_name, option, today)
              after == RecordBooking(session_state, heap, booking)
          IN  /\ calls' = Append(calls, [schedule_id |-> option.schedule_id,
                                         patient_name |-> patient_name,
                                         provider |-> Join(option.actors),
                                         appointment_id |-> appointment_id])
              /\ IF Truthy(appointment_id)
                 THEN /\ session_state' = after.session_state
                      /\ heap' = after.heap
                 ELSE UNCHANGED <<session_state, heap>>
    /\ UNCHANGED <<rankVars, handlerVars, fetchVars>>

\* two records with different ids, ranked under one preference set on day 0
InitBooking ==
    /\ schedules \in
          {<<a, b>> : a \in {x \in RankSchedules : x.id = <<"1">> /\ "active" \in DOMAIN x},
                      b \in {x \in RankSchedules : x.id = <<"2">> /\ "active" \notin DOMAIN x}}
    /\ user_preferences = [service_type |-> <<"F", "p">>, specialty |-> <<>>,
                           preferred_time |-> "morning", max_results |-> 5]
    /\ today = 0
    /\ ranked_options = <<>>
    /\ phase = "input"
    /\ pass_date = today
    /\ passes = 0
    /\ InitSession

NextBooking == RankAppointmentOptions \/ BookThisAppointment

SpecBooking == InitBooking /\ [][NextBooking]_vars

----------------------------------------------------------------------------
(* Booking handlers running concurrently against one session state: lines  *)
(* 834-868 statement by statement, with no lock around them.               *)

\* lines 834-839: create_appointment_booking has returned; a truthy id goes on to
\* record the booking, anything else ends the handler
HandlerBooks(h) ==
    /\ pc[h] = "idle"
    /\ \E i \in 1..Len(TopOptions), patient_name \in PatientNames, response \in Responses :
          LET option == TopOptions[i]
              appointment_id == CreateAppointmentBooking(response)
          IN  /\ calls' = Append(calls, [schedule_id |-> option.schedule_id,
                                         patient_name |-> patient_name,
                                         provider |-> Join(option.actors),
                                         appointment_id |-> appointment_id])
              /\ IF Truthy(appointment_id)
                 THEN /\ entry' = [entry EXCEPT ![h] =
                              BookingRecord(appointment_id[1], patient_name, option, today)]
                      /\ pc' = [pc EXCEPT ![h] = "check"]
                 ELSE /\ pc' = [pc EXCEPT ![h] = "done"]
                      /\ UNCHANGED entry
    /\ UNCHANGED <<rankVars, fetchVars, session_state, heap, ref>>

\* line 860: if 'booked_appointments' not in st.session_state
HandlerChecks(h) ==
    /\ pc[h] = "check"
    /\ pc' = [pc EXCEPT ![h] = IF HistoryAbsent(session_state) THEN "init" ELSE "load"]
    /\ UNCHANGED <<rankVars, fetchVars, sessionVars, ref, entry>>

\* line 861: st.session_state.booked_appointments = []
HandlerInitialises(h) ==
    /\ pc[h] = "init"
    /\ heap' = NewList(heap)
    /\ session_state' = Put(session_state, "booked_appointments", Len(heap) + 1)
    /\ pc' = [pc EXCEPT ![h] = "load"]
    /\ UNCHANGED <<rankVars, fetchVars, calls, ref, entry>>

\* line 862: st.session_state.booked_appointments is evaluated to a list object
HandlerLoads(h) ==
    /\ pc[h] = "load"
    /\ ref' = [ref EXCEPT ![h] = session_state.booked_appointments]
    /\ pc' = [pc EXCEPT ![h] = "append"]
    /\ UNCHANGED <<rankVars, fetchVars, sessionVars, entry>>

\* lines 862-868: .append({...}) on that object
HandlerAppends(h) ==
    /\ pc[h] = "append"
    /\ heap' = [heap EXCEPT ![ref[h]] = Append(@, entry[h])]
    /\ pc' = [pc EXCEPT ![h] = "done"]
    /\ UNCHANGED <<rankVars, fetchVars, session_state, calls, ref, entry>>

\* a ranked page is on display; the session is fresh or holds one earlier booking
InitConcurrent ==
    /\ schedules \in
          {<<a, b>> : a \in {x \in RankSchedules : x.id = <<"1">> /\ "active" \in DOMAIN x},
                      b \in {x \in RankSchedules : x.id = <<"2">> /\ "active" \notin DOMAIN x}}
    /\ user_preferences = [service_type |-> <<"F", "p">>, specialty |-> <<>>,
                           preferred_time |-> "morning", max_results |-> 5]
    /\ today = 0
    /\ ranked_options = RankResult(schedules, user_preferences, today)
    /\ phase = "ranked"
    /\ pass_date = today
    /\ passes = 1
    /\ \/ /\ session_state = EmptyDict
          /\ heap = <<>>
          /\ calls = <<>>
       \/ /\ session_state = [booked_appointments |-> 1]
          /\ heap = <<<<BookingRecord(<<"6">>, <<"D">>, ranked_options[1], today)>>>>
          /\ calls = <<[schedule_id |-> ranked_options[1].schedule_id,
                        patient_name |-> <<"D">>,
                        provider |-> Join(ranked_options[1].actors),
                        appointment_id |-> <<<<"6">>>>]>>
    /\ pc = [h \in Handlers |-> "idle"]
    /\ ref = [h \in Handlers |-> 0]
    /\ entry = [h \in Handlers |-> EmptyDict]
    /\ fetch_response = NoResponse

NextConcurrent ==
    \E h \in Handlers :
        \/ HandlerBooks(h)
        \/ HandlerChecks(h)
        \/ HandlerInitialises(h)
        \/ HandlerLoads(h)
        \/ HandlerAppends(h)

SpecConcurrent == InitConcurrent /\ [][NextConcurrent]_vars

----------------------------------------------------------------------------
(* 'Find Appointment Options' (lines 739-895): search_schedules (lines     *)
(* 106-143) fetches the records, and what it returns is ranked and cut to  *)
(* max_results for display.                                                *)

\* a few records the server holds: a service match on an active record, an active
\* record, and a record that earns nothing
FetchedSchedules ==
    { Schedule({<<"1">>}, {<<"n">>}, {<<[display |-> <<"D">>]>>},
               {<<ServiceEntry(<<"F", "p">>)>>}, {}, {}, {TRUE}),
      Schedule({<<"2">>}, {<<"n">>}, {<<[display |-> <<"D">>]>>}, {}, {}, {}, {TRUE}),
      Schedule({<<"3">>}, {<<"n">>}, {<<[display |-> <<"D">>]>>}, {}, {}, {}, {}) }

\* a record whose serviceType entry has an empty coding list
MalformedSchedule ==
    Schedule({<<"4">>}, {}, {}, {<<ServiceEntryEmptyCoding>>}, {}, {}, {})

\* a Bundle entry holding one resource
BundleEntry(resource) == [resource |-> resource]

\* the Bundle's entry lists
BundleEntries ==
    { [i \in 1..Len(l) |-> BundleEntry(l[i])] :
        l \in ListsUpTo(FetchedSchedules, MaxFetched) \cup {<<MalformedSchedule>>} }

\* what session.get(.../Schedule) can do: raise a RequestException, answer with an
\* error status, or answer 200 with a Bundle that has an entry list or none
FetchResponses ==
    { [raised |-> TRUE, status_code |-> 0, json |-> EmptyDict],
      [raised |-> FALSE, status_code |-> 500, json |-> EmptyDict],
      [raised |-> FALSE, status_code |-> 404, json |-> EmptyDict],
      [raised |-> FALSE, status_code |-> 200, json |-> [resourceType |-> <<"B">>]] }
    \cup { [raised |-> FALSE, status_code |-> 200,
            json |-> [resourceType |-> <<"B">>, entry |-> e]] : e \in BundleEntries }

\* search_schedules: the list it returns
SearchSchedules(resp) ==
    IF resp.raised
    THEN <<>>
    ELSE IF resp.status_code = 200
         THEN IF "entry" \in DOMAIN resp.json
              THEN [i \in 1..Len(resp.json.entry) |-> resp.json.entry[i].resource]
              ELSE <<>>
         ELSE <<>>

\* the handler of 'Find Appointment Options', run to its end
FindAppointmentOptions ==
    /\ phase = "search"
    /\ \E resp \in FetchResponses :
          LET found == SearchSchedules(resp)
          IN  /\ fetch_response' = resp
              /\ schedules' = found
              /\ IF found = <<>>
                 THEN /\ phase' = "none"
                      /\ UNCHANGED <<ranked_options, passes>>
                 ELSE IF \E i \in 1..Len(found) : ExtractionRaises(found[i])
                      THEN /\ phase' = "raised"
                           /\ UNCHANGED <<ranked_options, passes>>
                      ELSE /\ ranked_options' = RankResult(found, user_preferences, today)
                           /\ phase' = "ranked"
                           /\ passes' = 1
    /\ pass_date' = today
    /\ UNCHANGED <<user_preferences, today, sessionVars, handlerVars>>

\* the page is loaded and the sidebar filled in; nothing has been searched
InitFind ==
    /\ schedules = <<>>
    /\ user_preferences \in PreferenceSets
    /\ today = 0
    /\ ranked_options = <<>>
    /\ phase = "search"
    /\ pass_date = today
    /\ passes = 0
    /\ InitSession

NextFind == FindAppointmentOptions

SpecFind == InitFind /\ [][NextFind]_vars

----------------------------------------------------------------------------
(* Extraction of the serviceType and specialty lists (lines 290-302) over  *)
(* records whose entries have every shape of nesting.                      *)

\* serviceType entry whose concept has no coding list
ServiceEntryNoCoding == [concept |-> [text |-> <<"p">>]]

\* serviceType entry whose first coding has no display
ServiceEntryNoDisplay == [concept |-> [coding |-> <<[code |-> <<"1">>]>>]]

\* serviceType entry with two codings
ServiceEntryTwoCodings ==
    [concept |-> [coding |-> <<[code |-> <<"1">>, display |-> <<"F">>],
                               [code |-> <<"2">>, display |-> <<"p">>]>>]]

ServiceEntries ==
    { ServiceEntry(<<"C">>), ServiceEntry(<<"p", "c">>), ServiceEntryNoConcept,
      ServiceEntryNoCoding, ServiceEntryNoDisplay, ServiceEntryTwoCodings,
      ServiceEntryEmptyCoding }

\* specialty entries: with a display, without coding, without display, with two
\* codings, with an empty coding list
SpecialtyEntries ==
    { SpecialtyEntry(<<"C">>), SpecialtyEntry(<<"c", "F">>), [text |-> <<"p">>],
      [coding |-> <<[code |-> <<"1">>]>>],
      [coding |-> <<[code |-> <<"1">>, display |-> <<"p">>],
                    [code |-> <<"2">>, display |-> <<"C">>]>>],
      [coding |-> <<>>] }

\* records with a serviceType list, with a specialty list, and with short lists of both
ExtractionSchedules ==
    { Schedule({<<"1">>}, {}, {}, {st}, {}, {}, {}) :
        st \in ListsUpTo(ServiceEntries, MaxEntries) }
    \cup { Schedule({<<"1">>}, {}, {}, {}, {sp}, {}, {}) :
        sp \in ListsUpTo(SpecialtyEntries, MaxEntries) }
    \cup { Schedule({<<"1">>}, {}, {}, st, sp, {}, {}) :
        st \in Opt(ListsUpTo(ServiceEntries, 1)), sp \in Opt(ListsUpTo(SpecialtyEntries, 1)) }

InitExtract ==
    /\ schedules \in {<<s>> : s \in ExtractionSchedules}
    /\ user_preferences \in {pr \in PreferenceSets : pr.preferred_time = "morning"}
    /\ today = 0
    /\ ranked_options = <<>>
    /\ phase = "input"
    /\ pass_date = today
    /\ passes = 0
    /\ InitSession

NextExtract == RankAppointmentOptions \/ RankAppointmentOptionsRaises

SpecExtract == InitExtract /\ [][NextExtract]_vars

----------------------------------------------------------------------------
(* Properties *)

\* sum of the values of a dict
RECURSIVE SumValues(_)
SumValues(d) ==
    IF DOMAIN d = {} THEN 0
    ELSE LET k == CHOOSE x \in DOMAIN d : TRUE
         IN  d[k] + SumValues([x \in (DOMAIN d) \ {k} |-> d[x]])

\* what one criterion contributed to a result's total: the total less the
\* breakdown's entries of the other criteria
Points(result, label) ==
    result.score
      - SumValues([x \in (DOMAIN result.score_details) \ {label} |-> result.score_details[x]])

\* the indices of the returned list
Results == IF phase = "ranked" THEN 1..Len(ranked_options) ELSE {}

\* the list as it stood before the sort
Scored == ScoreAll(schedules, user_preferences, today)

\* the elements of a list that have total score s, in list order
WithScore(options, s) ==
    LET HasScore(x) == x.score = s
    IN  SelectSeq(options, HasScore)

\* two characters equal up to letter case
CasePairs == {{"F", "f"}, {"P", "p"}, {"U", "u"}, {"C", "c"}}
SameLetter(a, b) == a = b \/ {a, b} \in CasePairs

\* needle occurs in haystack, letter case ignored
ContainsIgnoringCase(haystack, needle) ==
    \E i \in 0..(Len(haystack) - Len(needle)) :
        \A j \in 1..Len(needle) : SameLetter(haystack[i + j], needle[j])

\* C1: every returned result's total score is an integer from 0 to 100.
ScoreInRange ==
    \A i \in Results : ranked_options[i].score \in 0..100

\* C1 witness: a result that earned every criterion and totals 100.
ScoreInRangeWitness ==
    /\ phase = "ranked"
    /\ \E i \in Results :
          /\ ranked_options[i].score = 100
          /\ Cardinality(DOMAIN ranked_options[i].score_details) = 5

\* C2: the values of a result's breakdown sum exactly to its total score.
BreakdownSumsToScore ==
    \A i \in Results :
        SumValues(ranked_options[i].score_details) = ranked_options[i].score

\* C2 witness: a result whose breakdown has several entries.
BreakdownSumsToScoreWitness ==
    \E i \in Results :
        /\ Cardinality(DOMAIN ranked_options[i].score_details) >= 3
        /\ ranked_options[i].score >= 55

\* C3: the returned list is in descending order of total score.
RankedDescending ==
    \A i \in Results : \A j \in Results :
        i < j => ranked_options[i].score >= ranked_options[j].score

\* C3 witness: the sort moved a higher-scored result ahead of a lower-scored one.
RankedDescendingWitness ==
    /\ phase = "ranked"
    /\ Len(ranked_options) >= 3
    /\ ranked_options[1].score > ranked_options[Len(ranked_options)].score
    /\ Scored[1].score < Scored[Len(Scored)].score

\* C4: results of equal total score keep the relative order their records had in the input.
RankingStable ==
    \A i \in Results :
        WithScore(ranked_options, ranked_options[i].score)
            = WithScore(Scored, ranked_options[i].score)

\* C4 witness: two different results tie and the sort reordered the list around them.
RankingStableWitness ==
    /\ phase = "ranked"
    /\ ranked_options # Scored
    /\ \E i \in Results : \E j \in Results :
          /\ i < j
          /\ ranked_options[i].score = ranked_options[j].score
          /\ ranked_options[i] # ranked_options[j]

\* C5: sorting the returned list again returns it unchanged.
RankingIdempotent ==
    phase = "ranked" => SortByScore(ranked_options) = ranked_options

\* C5 witness: a returned list, reordered by the first sort, that holds ties and distinct scores.
RankingIdempotentWitness ==
    /\ phase = "ranked"
    /\ ranked_options # Scored
    /\ Len(ranked_options) >= 3
    /\ ranked_options[1].score = ranked_options[2].score
    /\ ranked_options[1] # ranked_options[2]
    /\ ranked_options[2].score > ranked_options[3].score

\* the preferred service type / specialty is matched by one of the result's extracted strings
ServiceMatched(result) ==
    /\ user_preferences.service_type # <<>>
    /\ \E j \in 1..Len(result.service_types) :
          ContainsIgnoringCase(result.service_types[j], user_preferences.service_type)

SpecialtyMatched(result) ==
    /\ user_preferences.specialty # <<>>
    /\ \E j \in 1..Len(result.specialties) :
          ContainsIgnoringCase(result.specialties[j], user_preferences.specialty)

\* the result's planning-horizon start parses; DaysAhead is then its date less today
StartParses(result) ==
    /\ "start" \in DOMAIN result.planning_horizon
    /\ ParseDate(result.planning_horizon.start).ok

DaysAhead(result) == ParseDate(result.planning_horizon.start).day - today

\* C6: with an empty preferred service type no result has a 'Service Match' entry and
\* the criterion adds nothing to any total, whatever the record's service types.
EmptyServicePreferenceScoresNothing ==
    user_preferences.service_type = <<>> =>
        \A i \in Results :
            /\ "Service Match" \notin DOMAIN ranked_options[i].score_details
            /\ Points(ranked_options[i], "Service Match") = 0

\* C6 witness: no preferred service type, and a result whose service-type list is not empty.
EmptyServicePreferenceWitness ==
    /\ user_preferences.service_type = <<>>
    /\ \E i \in Results :
          /\ Len(ranked_options[i].service_types) = 2
          /\ ranked_options[i].score > 0

\* C7: Service Match is worth exactly 30 when the non-empty preferred service type occurs,
\* letter case ignored, in at least one extracted service-type string, however many
\* strings match, and is worth 0 and absent from the breakdown otherwise.
ServiceMatchRule ==
    \A i \in Results :
        LET r == ranked_options[i]
        IN  IF ServiceMatched(r)
            THEN /\ "Service Match" \in DOMAIN r.score_details
                 /\ r.score_details["Service Match"] = 30
                 /\ Points(r, "Service Match") = 30
            ELSE /\ "Service Match" \notin DOMAIN r.score_details
                 /\ Points(r, "Service Match") = 0

\* C7 witness: two service-type strings both match, one of them only when case is ignored.
ServiceMatchRuleWitness ==
    \E i \in Results :
        LET r == ranked_options[i]
        IN  /\ Len(r.service_types) = 2
            /\ \A j \in 1..2 :
                  ContainsIgnoringCase(r.service_types[j], user_preferences.service_type)
            /\ \E j \in 1..2 : ~Contains(r.service_types[j], user_preferences.service_type)
            /\ user_preferences.service_type # <<>>
            /\ r.score_details["Service Match"] = 30

\* C8: Specialty Match is worth exactly 25 when the non-empty preferred specialty occurs,
\* letter case ignored, in at least one extracted specialty string, and 0 otherwise,
\* whether or not Service Match was awarded.
SpecialtyMatchRule ==
    \A i \in Results :
        LET r == ranked_options[i]
        IN  IF SpecialtyMatched(r)
            THEN /\ "Specialty Match" \in DOMAIN r.score_details
                 /\ r.score_details["Specialty Match"] = 25
                 /\ Points(r, "Specialty Match") = 25
            ELSE /\ "Specialty Match" \notin DOMAIN r.score_details
                 /\ Points(r, "Specialty Match") = 0

\* C8 witness: a result awarded both Service Match and Specialty Match, two of its
\* specialty strings matching.
SpecialtyMatchRuleWitness ==
    \E i \in Results :
        LET r == ranked_options[i]
        IN  /\ "Service Match" \in DOMAIN r.score_details
            /\ "Specialty Match" \in DOMAIN r.score_details
            /\ Len(r.specialties) = 2
            /\ r.score_details["Specialty Match"] = 25

\* the award the availability table gives for a start d >= 0 days ahead
AvailabilityTable(d) ==
    CASE d <= 7 -> 20
      [] 8 <= d /\ d <= 14 -> 15
      [] 15 <= d /\ d <= 30 -> 10
      [] d > 30 -> 0

\* C9: for a start that parses and lies d >= 0 days after today, Availability is worth
\* 20 for d <= 7, 15 for 8..14, 10 for 15..30 and 0 (no entry) beyond 30.
AvailabilityRule ==
    \A i \in Results :
        LET r == ranked_options[i]
        IN  (StartParses(r) /\ DaysAhead(r) >= 0) =>
                /\ Points(r, "Availability") = AvailabilityTable(DaysAhead(r))
                /\ ("Availability" \in DOMAIN r.score_details
                        <=> AvailabilityTable(DaysAhead(r)) > 0)
                /\ ("Availability" \in DOMAIN r.score_details
                        => r.score_details["Availability"] = AvailabilityTable(DaysAhead(r)))

\* C9 witness: a start exactly 7 days ahead earns 20.
AvailabilityRuleWitness ==
    \E i \in Results :
        LET r == ranked_options[i]
        IN  /\ StartParses(r)
            /\ DaysAhead(r) = 7
            /\ r.score_details["Availability"] = 20

\* C10: a start that parses and lies before today earns no Availability points and
\* leaves no 'Availability' entry in the breakdown.
PastStartScoresNothing ==
    \A i \in Results :
        LET r == ranked_options[i]
        IN  (StartParses(r) /\ DaysAhead(r) < 0) =>
                /\ "Availability" \notin DOMAIN r.score_details
                /\ Points(r, "Availability") = 0

\* the time-of-day bucket an hour belongs to
TimeBucket(hour) ==
    IF hour < 12 THEN "morning" ELSE IF hour < 17 THEN "afternoon" ELSE "evening"

\* the running score before any criterion
NoAward == [score |-> 0, score_details |-> EmptyDict]

\* the preferences under which criterion 3 awards its points to this result
EarningTimePreferences(result) ==
    {q \in TimeOptions :
        "Time Preference" \in DOMAIN
            TimeCriterion(NoAward, result,
                          [user_preferences EXCEPT !.preferred_time = q]).score_details}

\* C11: for a start that parses, Time Preference is worth 15 exactly when the preferred
\* time is the bucket of the start's hour (morning < 12 <= afternoon < 17 <= evening) and
\* 0 otherwise, so exactly one of the three preferences earns the points.
TimePreferenceRule ==
    \A i \in Results :
        LET r == ranked_options[i]
            earns == user_preferences.preferred_time
                        = TimeBucket(ParseDate(r.planning_horizon.start).hour)
        IN  StartParses(r) =>
                /\ Points(r, "Time Preference") = (IF earns THEN 15 ELSE 0)
                /\ ("Time Preference" \in DOMAIN r.score_details <=> earns)
                /\ Cardinality(EarningTimePreferences(r)) = 1

\* C11 witness: a start at 12 o'clock earns the points under the afternoon preference.
TimePreferenceRuleWitness ==
    \E i \in Results :
        LET r == ranked_options[i]
        IN  /\ StartParses(r)
            /\ ParseDate(r.planning_horizon.start).hour = 12
            /\ user_preferences.preferred_time = "afternoon"
            /\ "Time Preference" \in DOMAIN r.score_details
            /\ r.score_details["Time Preference"] = 15

\* the extracted part of a result: the result less its score and breakdown
Extracted(result) == [result EXCEPT !.score = 0, !.score_details = EmptyDict]

\* the record's active flag is present and true
IsActive(schedule) == "active" \in DOMAIN schedule /\ schedule.active = TRUE

\* what the criteria that do not read the start give a record
ScoreWithoutStart(schedule) ==
    (IF ServiceMatched(Details(schedule)) THEN 30 ELSE 0)
      + (IF SpecialtyMatched(Details(schedule)) THEN 25 ELSE 0)
      + (IF IsActive(schedule) THEN 10 ELSE 0)

\* C12: a record whose start is absent or does not parse earns nothing for Time
\* Preference and Availability, raises no error, and is returned with the score of its
\* other criteria.
UnparseableStartRule ==
    /\ phase = "raised" => \E j \in 1..Len(schedules) : ExtractionRaises(schedules[j])
    /\ phase = "ranked" =>
        /\ Len(ranked_options) = Len(schedules)
        /\ \A i \in Results :
              LET r == ranked_options[i]
              IN  ~StartParses(r) =>
                      /\ "Time Preference" \notin DOMAIN r.score_details
                      /\ "Availability" \notin DOMAIN r.score_details
                      /\ Points(r, "Time Preference") = 0
                      /\ Points(r, "Availability") = 0
        /\ \A j \in 1..Len(schedules) :
              ~StartParses(Details(schedules[j])) =>
                  Cardinality({i \in Results :
                                  /\ Extracted(ranked_options[i]) = Details(schedules[j])
                                  /\ ranked_options[i].score = ScoreWithoutStart(schedules[j])})
                    = Cardinality({k \in 1..Len(schedules) :
                                  /\ Details(schedules[k]) = Details(schedules[j])
                                  /\ ScoreWithoutStart(schedules[k]) = ScoreWithoutStart(schedules[j])})

\* C12 witness: a returned record whose start is text that does not parse, scored 65 by
\* its service, specialty and active criteria.
UnparseableStartRuleWitness ==
    \E i \in Results :
        LET r == ranked_options[i]
        IN  /\ "start" \in DOMAIN r.planning_horizon
            /\ r.planning_horizon.start = <<1, 24>>
            /\ r.score = 65

\* the labels under which the first four criteria record their points
OtherLabels == {"Service Match", "Specialty Match", "Time Preference", "Availability"}

\* what the fifth criterion contributed to a result's total: the total less the
\* breakdown's entries of the first four criteria
ActivePoints(result) ==
    result.score
      - SumValues([x \in (DOMAIN result.score_details) \cap OtherLabels |->
                      result.score_details[x]])

\* C13: the active criterion is worth exactly 10 when the record's active flag is true
\* and 0 when it is false or absent, whatever the other fields and the preferences.
ActiveRule ==
    phase = "ranked" =>
        /\ \A i \in Results : ActivePoints(ranked_options[i]) \in {0, 10}
        /\ \A j \in 1..Len(schedules) :
              Cardinality({i \in Results :
                              /\ Extracted(ranked_options[i]) = Details(schedules[j])
                              /\ ActivePoints(ranked_options[i])
                                    = (IF IsActive(schedules[j]) THEN 10 ELSE 0)})
                = Cardinality({k \in 1..Len(schedules) :
                              /\ Details(schedules[k]) = Details(schedules[j])
                              /\ IsActive(schedules[k]) = IsActive(schedules[j])})

\* C13 witness: two records alike in every extracted field, one active and one without
\* the flag, returned with 10 points between them.
ActiveRuleWitness ==
    /\ phase = "ranked"
    /\ \E i \in Results : \E j \in Results :
          /\ Extracted(ranked_options[i]) = Extracted(ranked_options[j])
          /\ ActivePoints(ranked_options[i]) = 10
          /\ ActivePoints(ranked_options[j]) = 0
          /\ ranked_options[i].score > 10
    /\ \E k \in 1..Len(schedules) : "active" \notin DOMAIN schedules[k]

\* the labels of the scoring table shown in the sidebar
CriterionLabels ==
    {"Service Match", "Specialty Match", "Time Preference", "Availability", "Active Status"}

\* C14: every entry of a breakdown is more than 0 points and is keyed by one of the five
\* criterion labels 'Service Match', 'Specialty Match', 'Time Preference',
\* 'Availability', 'Active Status'.
BreakdownKeysAreCriterionLabels ==
    \A i \in Results :
        /\ DOMAIN ranked_options[i].score_details \subseteq CriterionLabels
        /\ \A k \in DOMAIN ranked_options[i].score_details :
              ranked_options[i].score_details[k] > 0

\* C15: extraction never fails: ranking completes for every record, also one whose
\* service-type or specialty entry has a coding list that is present but empty.
NormalizationNeverRaises == phase # "raised"

\* C16: the record {} is returned with id 'Unknown', name 'Unknown Schedule', no actors,
\* service types or specialties, and without the points of an active record.
EmptyRecordDefaults ==
    \A j \in 1..Len(schedules) :
        DOMAIN schedules[j] = {} =>
            /\ phase # "raised"
            /\ phase = "ranked" =>
                  \E i \in Results :
                      LET r == ranked_options[i]
                      IN  /\ r.schedule_id = <<"U", "n", "k", "n", "o", "w", "n">>
                          /\ r.name = <<"U", "n", "k", "n", "o", "w", "n", " ",
                                        "S", "c", "h", "e", "d", "u", "l", "e">>
                          /\ r.actors = <<>>
                          /\ r.service_types = <<>>
                          /\ r.specialties = <<>>
                          /\ ActivePoints(r) = 0
                          /\ r.score = 0

\* C16 witness: the list holding only the record {} has been ranked.
EmptyRecordDefaultsWitness ==
    /\ phase = "ranked"
    /\ Len(schedules) = 1
    /\ DOMAIN schedules[1] = {}
    /\ Len(ranked_options) = 1

RankingLeavesInputsUnchanged ==
    [][(phase = "input" /\ phase' = "ranked")
          => (schedules' = schedules /\ user_preferences' = user_preferences)]_vars

\* C18 witness: a pass has returned three results in an order other than the input's,
\* the first result not being the first record.
RankingLeavesInputsUnchangedWitness ==
    /\ phase = "ranked"
    /\ Len(schedules) = 3
    /\ Len(ranked_options) = 3
    /\ Extracted(ranked_options[1]) # Details(schedules[1])
    /\ ranked_options[1].score > 0

\* a logged submission succeeded: create_appointment_booking returned an id
Succeeded(call) == call.appointment_id # <<>> /\ call.appointment_id[1] # <<>>

\* the submissions that succeeded, in call order
SuccessfulCalls == SelectSeq(calls, Succeeded)

\* a is a prefix of b
IsPrefix(a, b) == Len(a) <= Len(b) /\ SubSeq(b, 1, Len(a)) = a

\* the history lists exactly the submissions that succeeded, oldest first
HistoryMatchesCalls ==
    /\ Len(BookingHistory) = Len(SuccessfulCalls)
    /\ \A k \in 1..Len(BookingHistory) :
          /\ BookingHistory[k].appointment_id = SuccessfulCalls[k].appointment_id[1]
          /\ BookingHistory[k].patient_name = SuccessfulCalls[k].patient_name
          /\ BookingHistory[k].provider = SuccessfulCalls[k].provider
          /\ BookingHistory[k].schedule_id = SuccessfulCalls[k].schedule_id

\* a step only ever extends the history, and a failed submission leaves it as it was
HistoryOnlyGrows ==
    /\ IsPrefix(BookingHistory, BookingHistory')
    /\ (Len(calls') = Len(calls) + 1 /\ ~Succeeded(calls'[Len(calls')]))
          => BookingHistory' = BookingHistory

\* C19: after any sequence of booking submissions the history is exactly the sequence
\* of the submissions that succeeded, in call order; a failed submission leaves it
\* unchanged, an earlier history is a prefix of a later one, and a schedule booked
\* again gets a further entry.
BookingHistoryIsSuccessLog == [](HistoryMatchesCalls) /\ [][HistoryOnlyGrows]_vars

\* C19 witness: three submissions, the second failed, the first and third booked the
\* same schedule; the history holds two entries for that schedule.
BookingHistoryIsSuccessLogWitness ==
    /\ Len(calls) = 3
    /\ Succeeded(calls[1])
    /\ ~Succeeded(calls[2])
    /\ Succeeded(calls[3])
    /\ calls[1].schedule_id = calls[3].schedule_id
    /\ Len(BookingHistory) = 2
    /\ BookingHistory[1].schedule_id = BookingHistory[2].schedule_id

\* C20: when the handlers of concurrent booking submissions have all finished, every
\* submission that succeeded has its entry in the history; no entry is lost.
ConcurrentBookingsAllRecorded ==
    (\A h \in Handlers : pc[h] = "done") =>
        /\ Len(BookingHistory) = Len(SuccessfulCalls)
        /\ \A h \in Handlers :
              DOMAIN entry[h] # {} =>
                  \E k \in 1..Len(BookingHistory) : BookingHistory[k] = entry[h]

\* the fetch did not succeed: the request raised or the status was not 200
FetchFailed(resp) == resp.raised \/ resp.status_code # 200

\* the fetch succeeded and the Bundle holds no record
FetchedNothing(resp) ==
    /\ ~resp.raised
    /\ resp.status_code = 200
    /\ "entry" \in DOMAIN resp.json => resp.json.entry = <<>>

\* C21: the value search_schedules returns for a failed fetch is never a value it
\* returns for a successful fetch that found zero records.
FetchFailureDistinguishable ==
    (phase # "search" /\ FetchFailed(fetch_response)) =>
        \A ok \in FetchResponses :
            FetchedNothing(ok) => schedules # SearchSchedules(ok)

\* how many times x occurs in a list
Occurrences(list, x) == Cardinality({i \in 1..Len(list) : list[i] = x})

\* a and b hold the same elements the same number of times
IsPermutation(a, b) ==
    /\ Len(a) = Len(b)
    /\ \A i \in 1..Len(a) : Occurrences(a, a[i]) = Occurrences(b, a[i])

\* the smaller of two numbers
Min(a, b) == IF a < b THEN a ELSE b

\* C22: the ranking returns one result per input record, a permutation of the scored
\* inputs; the caller displays the first min(max_results, n) of them, so that no
\* undisplayed result has a higher score than a displayed one.
RankThenLimit ==
    phase = "ranked" =>
        /\ Len(ranked_options) = Len(schedules)
        /\ IsPermutation(ranked_options, Scored)
        /\ Len(TopOptions) = Min(user_preferences.max_results, Len(ranked_options))
        /\ \A i \in 1..Len(TopOptions) : TopOptions[i] = ranked_options[i]
        /\ \A i \in 1..Len(TopOptions) :
              \A j \in (Len(TopOptions) + 1)..Len(ranked_options) :
                  ranked_options[j].score <= ranked_options[i].score

\* C22 witness: more records were ranked than are displayed, with different scores,
\* and the best record was not first in the input.
RankThenLimitWitness ==
    /\ phase = "ranked"
    /\ Len(ranked_options) > user_preferences.max_results
    /\ Len(TopOptions) = user_preferences.max_results
    /\ ranked_options[1].score > ranked_options[Len(ranked_options)].score
    /\ Scored[1].score < Scored[Len(Scored)].score

\* the display of a coding list's first coding, 'Unknown' without one
FirstDisplay(holder) ==
    IF "coding" \in DOMAIN holder
    THEN IF "display" \in DOMAIN holder.coding[1] THEN holder.coding[1].display ELSE Unknown
    ELSE Unknown

\* what one serviceType entry contributes
ServiceDisplay(st) == IF "concept" \in DOMAIN st THEN FirstDisplay(st.concept) ELSE Unknown

\* the list a record has under key, empty when the key is absent
ListOf(schedule, key) == IF key \in DOMAIN schedule THEN schedule[key] ELSE <<>>

\* C23: in every result, service_types (resp. specialties) has one string per entry of
\* the record's serviceType (resp. specialty) list, at the same position: the display
\* of the entry's first coding, or 'Unknown' when the concept, the coding list or the
\* display is absent.  No entry is skipped.
ExtractionPreservesEntries ==
    phase = "ranked" =>
        \A i \in 1..Len(schedules) :
            \E j \in Results :
                /\ ranked_options[j].schedule_id = Get(schedules[i], "id", Unknown)
                /\ Len(ranked_options[j].service_types) = Len(ListOf(schedules[i], "serviceType"))
                /\ \A k \in 1..Len(ListOf(schedules[i], "serviceType")) :
                      ranked_options[j].service_types[k] = ServiceDisplay(schedules[i].serviceType[k])
                /\ Len(ranked_options[j].specialties) = Len(ListOf(schedules[i], "specialty"))
                /\ \A k \in 1..Len(ListOf(schedules[i], "specialty")) :
                      ranked_options[j].specialties[k] = FirstDisplay(schedules[i].specialty[k])

\* C23 witness: a record whose three serviceType entries are one with a display, one
\* without the concept and one with another display was ranked, and 'Unknown' stands
\* between the two displays.
ExtractionPreservesEntriesWitness ==
    /\ phase = "ranked"
    /\ Len(ListOf(schedules[1], "serviceType")) = 3
    /\ "concept" \notin DOMAIN schedules[1].serviceType[2]
    /\ ranked_options[1].service_types = <<<<"C">>, Unknown, <<"p", "c">>>>

====
